---- MODULE Spec2Model ----
(***************************************************************************)
(* Key/door maze solver of src/maze.py: graph construction (Maze.__init__), *)
(* door-aware reachability (available_from), route enumeration             *)
(* (paths_to_exit), leg search (bfs), stitching (calculate_plan_path) and   *)
(* move encoding (solve).  A vertex is identified by its position <<x, y>>  *)
(* (the source has one Vertex object per non-wall cell and compares them by *)
(* identity).                                                               *)
(***************************************************************************)
EXTENDS Integers, Sequences, FiniteSets, TLC

VARIABLES grid, pc, maze, distance, shortest_path_from, op, args, ret, raised,
          locals, calls, limit

vars == <<grid, pc, maze, distance, shortest_path_from, op, args, ret, raised,
          locals, calls, limit>>

----------------------------------------------------------------------------
(* Cell tags, as the two-character codes the source compares against.       *)

Wall == "##"
Key == "Om"
Door == "{}"
Exit == "<>"
Floor == "  "

NonWallTags == {Floor, Key, Door, Exit}

(* Python's None where a string is expected, the value None of a grid cell   *)
(* (no Vertex), and None where a Vertex is expected (positions are >= 0).   *)
None == "None"
NoCell == [type |-> None, neighbours |-> << >>]
NoVertex == <<-1, -1>>

(* math.inf, the "unvisited" sentinel of Vertex.distance (distances are     *)
(* >= 0).                                                                   *)
inf == -1

(* Bounds of the generated input grids.                                     *)
MaxW == 2
MaxH == 2
MaxCells == 2
MaxCalls == 2

----------------------------------------------------------------------------
(* Grids: a grid is a sequence of rows, a row a sequence of tags; the cell  *)
(* at column x, row y (both from 0, as in the source) is g[y + 1][x + 1].   *)

Height(g) == Len(g)
Width(g) == Len(g[1])

GridPositions(w, h) == {<<x, y>> : x \in 0..(w - 1), y \in 0..(h - 1)}

MkGrid(w, h, f) ==
    [r \in 1..h |-> [c \in 1..w |->
        IF <<c - 1, r - 1>> \in DOMAIN f THEN f[<<c - 1, r - 1>>] ELSE Wall]]

GeneratedGrids ==
    UNION {
        UNION { { MkGrid(w, h, f) : f \in [S -> NonWallTags] } :
                S \in { T \in SUBSET GridPositions(w, h) : Cardinality(T) <= MaxCells } }
        : <<w, h>> \in (1..MaxW) \X (1..MaxH) }

(* Every tagging of the 2 x 2 block of cells whose top left corner is the   *)
(* start cell, inside a 4 x 4 grid whose border is wall.                    *)
Block == {<<1, 1>>, <<2, 1>>, <<1, 2>>, <<2, 2>>}

BlockGrids == { MkGrid(4, 4, f) : f \in [Block -> NonWallTags \cup {Wall}] }

(* Named mazes: the scenarios of the specification and mazes with           *)
(* branches, a cycle, several keys and doors.                               *)
ScenarioGrids ==
    LET W == Wall
        S == Floor
        F == Floor
        K == Key
        D == Door
        E == Exit
    IN  { (* start next to the exit *)
          << <<W, W, W, W>>,
             <<W, S, E, W>>,
             <<W, W, W, W>> >>,
          (* key, then door, then exit along a corridor *)
          << <<W, W, W, W, W, W>>,
             <<W, S, K, D, E, W>>,
             <<W, W, W, W, W, W>> >>,
          (* the key in a side branch *)
          << <<W, W, W, W, W, W>>,
             <<W, S, F, D, E, W>>,
             <<W, F, W, W, W, W>>,
             <<W, K, W, W, W, W>>,
             <<W, W, W, W, W, W>> >>,
          (* the exit walled off *)
          << <<W, W, W, W, W>>,
             <<W, S, W, E, W>>,
             <<W, W, W, W, W>> >>,
          (* the only key behind the door *)
          << <<W, W, W, W, W, W>>,
             <<W, S, D, K, E, W>>,
             <<W, W, W, W, W, W>> >>,
          (* two keys, two doors in a row *)
          << <<W, W, W, W, W, W>>,
             <<W, S, D, D, E, W>>,
             <<W, K, W, W, W, W>>,
             <<W, K, W, W, W, W>>,
             <<W, W, W, W, W, W>> >>,
          (* two key/door pairs, a short and a long way round a block *)
          << <<W, W, W, W, W, W>>,
             <<W, S, K, D, F, W>>,
             <<W, K, W, W, F, W>>,
             <<W, D, F, F, E, W>>,
             <<W, W, W, W, W, W>> >>,
          (* a door on the short way, a free long way *)
          << <<W, W, W, W, W>>,
             <<W, S, D, E, W>>,
             <<W, F, W, F, W>>,
             <<W, F, F, F, W>>,
             <<W, W, W, W, W>> >>,
          (* a door on the short way with its key off the long way *)
          << <<W, W, W, W, W, W>>,
             <<W, S, D, E, W, W>>,
             <<W, F, W, F, W, W>>,
             <<W, F, F, F, K, W>>,
             <<W, W, W, W, W, W>> >>,
          (* two keys behind a door that has to be passed again on the way  *)
          (* back, and a far key that saves passing it twice                *)
          << <<W, W, W, W, W, W>>,
             <<F, S, K, W, W, W>>,
             <<F, W, D, K, K, W>>,
             <<K, W, D, W, W, W>>,
             <<W, W, E, W, W, W>>,
             <<W, W, W, W, W, W>> >>,
          (* cells in the first row and column; moves in all four directions *)
          << <<W, W, E, W>>,
             <<F, S, D, W>>,
             <<K, W, W, W>>,
             <<W, W, W, W>> >> }

(* The mazes of the block that several calls in a row are run on: three     *)
(* cells round the start, or all four with a plain start and the Exit       *)
(* opposite it.                                                             *)
CallGrids ==
    { MkGrid(4, 4, f) :
        f \in {h \in [Block -> NonWallTags \cup {Wall}] :
                  \/ h[<<2, 2>>] = Wall
                  \/ h[<<1, 1>>] = Floor /\ h[<<2, 2>>] = Exit} }

InputGrids == GeneratedGrids \cup BlockGrids \cup ScenarioGrids

----------------------------------------------------------------------------
(* Python list indexing: an index in -n..n-1 is accepted, a negative one    *)
(* counts from the end, any other raises IndexError.                        *)

IndexOk(i, n) == i >= -n /\ i < n
IndexAt(i, n) == IF i < 0 THEN i + n ELSE i

(* Vector.__add__ and Vector.__sub__: component-wise.                       *)
VecAdd(a, b) == <<a[1] + b[1], a[2] + b[2]>>
VecSub(a, b) == <<a[1] - b[1], a[2] - b[2]>>

(* The four neighbour probes of Maze.__init__, in the order of the source.  *)
Probes == << <<0, 1>>, <<0, -1>>, <<1, 0>>, <<-1, 0>> >>

(* The cell a probe position indexes: self.maze[neighbour.y][neighbour.x].  *)
ProbeOk(g, p) == IndexOk(p[2], Height(g)) /\ IndexOk(p[1], Width(g))
ProbeCell(g, p) == <<IndexAt(p[1], Width(g)), IndexAt(p[2], Height(g))>>

IsVertex(g, p) == g[p[2] + 1][p[1] + 1] # Wall

VertexPositions(g) == {p \in GridPositions(Width(g), Height(g)) : IsVertex(g, p)}

(* Does the neighbour loop of Maze.__init__ raise IndexError on grid g?     *)
InitRaises(g) ==
    \E p \in VertexPositions(g) : \E i \in 1..4 : ~ProbeOk(g, VecAdd(p, Probes[i]))

RECURSIVE NeighbourList(_, _, _)
NeighbourList(g, p, i) ==
    IF i > 4 THEN << >>
    ELSE LET q == ProbeCell(g, VecAdd(p, Probes[i]))
         IN  (IF IsVertex(g, q) THEN <<q>> ELSE << >>) \o NeighbourList(g, p, i + 1)

(* The vertex grid self.maze after a successful construction.               *)
BuildMaze(g) ==
    [p \in GridPositions(Width(g), Height(g)) |->
        IF IsVertex(g, p)
        THEN [type |-> g[p[2] + 1][p[1] + 1], neighbours |-> NeighbourList(g, p, 1)]
        ELSE NoCell]

----------------------------------------------------------------------------
(* Vertices of a built maze m (the generator Maze.vertices).                *)

vertices(m) == {p \in DOMAIN m : m[p] # NoCell}

Interesting == {Exit, Key, Door}

(* One pass of "for neighbour in current.neighbours" in available_from.     *)
RECURSIVE AvailVisit(_, _, _)
AvailVisit(nbrs, i, st) ==
    IF i > Len(nbrs) THEN st
    ELSE LET n == nbrs[i]
         IN  IF st.dist[n] = inf
             THEN AvailVisit(nbrs, i + 1,
                     [st EXCEPT !.dist[n] = 0, !.queue = Append(@, n)])
             ELSE AvailVisit(nbrs, i + 1, st)

(* The loop of available_from without its "continue" at a Door: a Door is   *)
(* expanded like any other vertex.                                          *)
RECURSIVE AvailLoopThroughDoors(_, _, _)
AvailLoopThroughDoors(m, start, st) ==
    IF st.queue = << >> THEN st
    ELSE LET current == Head(st.queue)
             popped == [st EXCEPT !.queue = Tail(@)]
             added == IF m[current].type \in Interesting
                      THEN [popped EXCEPT !.available = @ \cup {current}]
                      ELSE popped
         IN  AvailLoopThroughDoors(m, start, AvailVisit(m[current].neighbours, 1, added))

(* The "while queue" loop of available_from.                                *)
RECURSIVE AvailLoop(_, _, _)
AvailLoop(m, start, st) ==
    IF st.queue = << >> THEN st
    ELSE LET current == Head(st.queue)
             popped == [st EXCEPT !.queue = Tail(@)]
             added == IF m[current].type \in Interesting
                      THEN [popped EXCEPT !.available = @ \cup {current}]
                      ELSE popped
         IN  IF m[current].type = Door /\ current # start
             THEN AvailLoop(m, start, added)
             ELSE AvailLoop(m, start, AvailVisit(m[current].neighbours, 1, added))

(* The search started on the distance fields as the earlier searches left   *)
(* them.                                                                    *)
ResetDistanceKept(m, dist) == dist

(* "for vertex in self.vertices(): vertex.distance = inf": the distance     *)
(* fields dist left by earlier searches are overwritten.                    *)
ResetDistance(m, dist) == [p \in vertices(m) |-> inf]

(* The search state when available_from(start) returns, from the distance   *)
(* fields dist the vertices hold when it is called.                         *)
AvailRun(m, start, dist) ==
    LET st == AvailLoop(m, start,
                 [queue |-> <<start>>,
                  dist |-> [ResetDistance(m, dist) EXCEPT ![start] = 0],
                  available |-> {}])
    IN  [st EXCEPT !.available = @ \ {start}]

(* The fields of the vertices of a maze no search has run on.               *)
FreshDistance(m) == [p \in vertices(m) |-> inf]
FreshPredecessor(m) == [p \in vertices(m) |-> NoVertex]

available_from(m, start) == AvailRun(m, start, FreshDistance(m)).available

----------------------------------------------------------------------------
(* The neighbour pass of bfs without its "continue" at a Door that is not   *)
(* the destination.                                                         *)
RECURSIVE BfsVisitThroughDoors(_, _, _, _, _)
BfsVisitThroughDoors(m, dest, vertex, i, st) ==
    LET nbrs == m[vertex].neighbours
    IN  IF i > Len(nbrs) THEN st
        ELSE LET n == nbrs[i]
             IN  IF st.dist[n] = inf
                 THEN BfsVisitThroughDoors(m, dest, vertex, i + 1,
                         [st EXCEPT !.dist[n] = st.dist[vertex] + 1,
                                    !.pred[n] = vertex,
                                    !.queue = Append(@, n)])
                 ELSE BfsVisitThroughDoors(m, dest, vertex, i + 1, st)

(* One pass of "for neighbour in vertex.neighbours" in bfs.                 *)
RECURSIVE BfsVisit(_, _, _, _, _)
BfsVisit(m, dest, vertex, i, st) ==
    LET nbrs == m[vertex].neighbours
    IN  IF i > Len(nbrs) THEN st
        ELSE LET n == nbrs[i]
             IN  IF m[n].type = Door /\ n # dest
                 THEN BfsVisit(m, dest, vertex, i + 1, st)
                 ELSE IF st.dist[n] = inf
                 THEN BfsVisit(m, dest, vertex, i + 1,
                         [st EXCEPT !.dist[n] = st.dist[vertex] + 1,
                                    !.pred[n] = vertex,
                                    !.queue = Append(@, n)])
                 ELSE BfsVisit(m, dest, vertex, i + 1, st)

(* The "while vertices" loop of bfs, left by break on reaching dest.        *)
RECURSIVE BfsLoop(_, _, _)
BfsLoop(m, dest, st) ==
    IF st.queue = << >> THEN st
    ELSE LET vertex == Head(st.queue)
             popped == [st EXCEPT !.queue = Tail(@)]
         IN  IF vertex = dest THEN popped
             ELSE BfsLoop(m, dest, BfsVisit(m, dest, vertex, 1, popped))

(* "vertex.shortest_path_from = None" for every vertex.                     *)
ResetPredecessor(m, pred) == [p \in vertices(m) |-> NoVertex]

(* The search state when the loop of bfs(source, dest) ends, from the       *)
(* fields dist and pred the vertices hold when it is called.                *)
BfsRun(m, source, dest, dist, pred) ==
    BfsLoop(m, dest,
        [queue |-> <<source>>,
         dist |-> [ResetDistance(m, dist) EXCEPT ![source] = 0],
         pred |-> ResetPredecessor(m, pred)])

(* The back-pointer walk of bfs: vertices from current back to, and         *)
(* excluding, the first one without a predecessor.                          *)
RECURSIVE BackWalk(_, _)
BackWalk(pred, current) ==
    IF pred[current] = NoVertex THEN << >>
    ELSE <<current>> \o BackWalk(pred, pred[current])

RECURSIVE BackEnd(_, _)
BackEnd(pred, current) ==
    IF pred[current] = NoVertex THEN current ELSE BackEnd(pred, pred[current])

RECURSIVE Reverse(_)
Reverse(s) == IF s = << >> THEN << >> ELSE Append(Reverse(Tail(s)), Head(s))

(* The path bfs returns from the back-pointers pred.                        *)
BfsPath(pred, dest) ==
    LET path == BackWalk(pred, dest)
    IN  IF path # << >>
        THEN Reverse(Append(path, BackEnd(pred, dest)))
        ELSE << >>

bfs(m, source, dest) ==
    BfsPath(BfsRun(m, source, dest, FreshDistance(m), FreshPredecessor(m)).pred, dest)

----------------------------------------------------------------------------
(* Iteration over the set "available" in paths_to_exit.  A Python set of    *)
(* Vertex objects is iterated in an order fixed by the objects' identity    *)
(* hashes, which the program does not control: ord, a sequence listing the  *)
(* checkpoint vertices without repetition, is that order.                   *)

Range(s) == {s[i] : i \in DOMAIN s}

SetIter(S, ord) ==
    LET Member(p) == p \in S
    IN  SelectSeq(ord, Member)

RECURSIVE SetToSeq(_)
SetToSeq(S) ==
    IF S = {} THEN << >>
    ELSE LET x == CHOOSE y \in S : TRUE
         IN  <<x>> \o SetToSeq(S \ {x})

checkpoints(m) == {p \in vertices(m) : m[p].type \in Interesting}

(* new_keys when a Door does not use up a key.                              *)
NewKeysDoorFree(m, keys, node) ==
    IF m[node].type = Key THEN keys + 1 ELSE keys

(* new_keys of paths_to_exit for candidate node.                            *)
NewKeys(m, keys, node) ==
    IF m[node].type = Key THEN keys + 1
    ELSE IF m[node].type = Door THEN keys - 1
    ELSE keys

RECURSIVE paths_to_exit(_, _, _, _)
RECURSIVE PathsLoop(_, _, _, _, _, _)

(* The loop with the pruning test off by one (new_keys <= 0).               *)
RECURSIVE PathsLoopStrict(_, _, _, _, _, _)
PathsLoopStrict(m, path, keys, ord, nodes, i) ==
    IF i > Len(nodes) THEN << >>
    ELSE LET node == nodes[i]
             new_keys == NewKeys(m, keys, node)
             new_path == Append(path, node)
             found == IF new_keys <= 0 THEN << >>
                      ELSE IF m[node].type = Exit THEN <<new_path>>
                      ELSE paths_to_exit(m, new_path, new_keys, ord)
         IN  found \o PathsLoopStrict(m, path, keys, ord, nodes, i + 1)

(* The loop without the pruning test.                                       *)
RECURSIVE PathsLoopNoPrune(_, _, _, _, _, _)
PathsLoopNoPrune(m, path, keys, ord, nodes, i) ==
    IF i > Len(nodes) THEN << >>
    ELSE LET node == nodes[i]
             new_keys == NewKeys(m, keys, node)
             new_path == Append(path, node)
             found == IF m[node].type = Exit THEN <<new_path>>
                      ELSE paths_to_exit(m, new_path, new_keys, ord)
         IN  found \o PathsLoopNoPrune(m, path, keys, ord, nodes, i + 1)

(* The "for node in available" loop of paths_to_exit, from the i-th node.   *)
PathsLoop(m, path, keys, ord, nodes, i) ==
    IF i > Len(nodes) THEN << >>
    ELSE LET node == nodes[i]
             new_keys == NewKeys(m, keys, node)
             new_path == Append(path, node)
             found == IF new_keys < 0 THEN << >>
                      ELSE IF m[node].type = Exit THEN <<new_path>>
                      ELSE paths_to_exit(m, new_path, new_keys, ord)
         IN  found \o PathsLoop(m, path, keys, ord, nodes, i + 1)

paths_to_exit(m, path, keys, ord) ==
    PathsLoop(m, path, keys, ord,
        SetIter(available_from(m, path[Len(path)]) \ Range(path), ord), 1)

(* The candidates of a call without "available.difference_update(path)".    *)
CandidatesKeepVisited(available, path, ord) ==
    SetIter(available, ord)

(* What "for node in available" iterates over in the call                  *)
(* paths_to_exit(path), in iteration order, from the set available that    *)
(* available_from(path[-1]) returned.                                      *)
Candidates(available, path, ord) ==
    SetIter(available \ Range(path), ord)

(* The vertex of the last available_from call made by paths_to_exit: the    *)
(* search whose distance marks are left on the vertices when it returns.    *)
RECURSIVE LastSearched(_, _, _, _)
LastSearched(m, path, keys, ord) ==
    LET nodes == SetIter(available_from(m, path[Len(path)]) \ Range(path), ord)
        Recursed(node) == NewKeys(m, keys, node) >= 0 /\ m[node].type # Exit
        rec == SelectSeq(nodes, Recursed)
    IN  IF rec = << >> THEN path[Len(path)]
        ELSE LastSearched(m, Append(path, rec[Len(rec)]),
                 NewKeys(m, keys, rec[Len(rec)]), ord)

(* The iteration orders explored: the row order of the checkpoints, and    *)
(* for every route r the enumerator can return an order that visits r's    *)
(* checkpoints first, in r's order, so that r is the first route of the    *)
(* returned list.  Every route can be the first one under some order of    *)
(* the program, and under these orders every route is.                     *)
BaseOrder(m) == SetToSeq(checkpoints(m))

Prefer(m, r) ==
    LET first == SelectSeq(r, LAMBDA p : p \in checkpoints(m))
    IN  first \o SelectSeq(BaseOrder(m), LAMBDA p : p \notin Range(first))

Orders(m, start) ==
    {BaseOrder(m)} \cup
    { Prefer(m, Tail(r)) : r \in Range(paths_to_exit(m, <<start>>, 0, BaseOrder(m))) }

----------------------------------------------------------------------------
(* calculate_plan_path: one bfs per leg, the first vertex of every leg      *)
(* after the first popped, the legs concatenated.                           *)

RECURSIVE LegsFrom(_, _, _)
LegsFrom(m, plan, z) ==
    IF z > Len(plan) - 1 THEN << >>
    ELSE <<bfs(m, plan[z], plan[z + 1])>> \o LegsFrom(m, plan, z + 1)

Legs(m, plan) == LegsFrom(m, plan, 1)

(* path.pop(0) on an empty leg raises IndexError.                           *)
PlanRaises(m, plan) ==
    LET paths == Legs(m, plan)
    IN  \E z \in 2..Len(paths) : paths[z] = << >>

(* The concatenation without path.pop(0).                                   *)
RECURSIVE SumNoPop(_, _)
SumNoPop(paths, z) ==
    IF z > Len(paths) THEN << >>
    ELSE paths[z] \o SumNoPop(paths, z + 1)

RECURSIVE Sum(_, _)
Sum(paths, z) ==
    IF z > Len(paths) THEN << >>
    ELSE (IF z = 1 THEN paths[z] ELSE Tail(paths[z])) \o Sum(paths, z + 1)

calculate_plan_path(m, plan) == Sum(Legs(m, plan), 1)

----------------------------------------------------------------------------
(* solve: the start lookup, the first shortest stitched path, its encoding. *)

(* The first path taken instead of the shortest.                            *)
MinByLenFirst(paths) == paths[1]

(* min(paths, key=len): the first element of least length.                  *)
MinByLen(paths) ==
    LET z == CHOOSE i \in 1..Len(paths) :
                 /\ \A j \in 1..Len(paths) : Len(paths[i]) <= Len(paths[j])
                 /\ \A j \in 1..(i - 1) : Len(paths[j]) > Len(paths[i])
    IN  paths[z]

(* The encoding with the vertical axis upside down.                         *)
MoveFlipped(direction) ==
    IF direction[1] = 0
    THEN (IF direction[2] = 1 THEN "u" ELSE "d")
    ELSE (IF direction[1] = 1 THEN "r" ELSE "l")

Move(direction) ==
    IF direction[1] = 0
    THEN (IF direction[2] = 1 THEN "d" ELSE "u")
    ELSE (IF direction[1] = 1 THEN "r" ELSE "l")

RECURSIVE EncodeFrom(_, _)
EncodeFrom(the_path, z) ==
    IF z > Len(the_path) - 1 THEN << >>
    ELSE <<Move(VecSub(the_path[z + 1], the_path[z]))>> \o EncodeFrom(the_path, z + 1)

Encode(the_path) == EncodeFrom(the_path, 1)

(* self.maze[1][1]: IndexError on a grid with fewer than two rows or        *)
(* columns, None on a wall cell.                                            *)
StartRaises(m, w, h) == ~(IndexOk(1, h) /\ IndexOk(1, w))
StartCell == <<1, 1>>

(* [self.calculate_plan_path(plan) for plan in plans]                      *)
RECURSIVE PlanPaths(_, _, _)
PlanPaths(m, plans, z) ==
    IF z > Len(plans) THEN << >>
    ELSE <<calculate_plan_path(m, plans[z])>> \o PlanPaths(m, plans, z + 1)

(* Outcome of solve under iteration order ord: the exception raised, or     *)
(* the selected path and the returned move string.                          *)
solve(m, w, h, ord) ==
    IF StartRaises(m, w, h)
    THEN [raised |-> "IndexError", plans |-> << >>, the_path |-> << >>, ans |-> << >>]
    ELSE IF m[StartCell] = NoCell
    THEN [raised |-> "AttributeError", plans |-> << >>, the_path |-> << >>, ans |-> << >>]
    ELSE LET plans == paths_to_exit(m, <<StartCell>>, 0, ord)
             paths == PlanPaths(m, plans, 1)
             the_path == MinByLen(paths)
         IN  IF paths = << >>
             THEN [raised |-> "ValueError", plans |-> plans, the_path |-> << >>,
                   ans |-> << >>]
             ELSE [raised |-> None, plans |-> plans, the_path |-> the_path,
                   ans |-> Encode(the_path)]

----------------------------------------------------------------------------
Init ==
    /\ grid \in InputGrids
    /\ pc = "new"
    /\ maze = << >>
    /\ distance = << >>
    /\ shortest_path_from = << >>
    /\ op = "none"
    /\ args = << >>
    /\ ret = None
    /\ raised = None
    /\ locals = << >>
    /\ calls = 0
    /\ limit = 1

(* Maze.__init__                                                            *)
Construct ==
    /\ pc = "new"
    /\ op' = "init"
    /\ args' = << >>
    /\ ret' = None
    /\ locals' = << >>
    /\ IF InitRaises(grid)
       THEN /\ pc' = "failed"
            /\ raised' = "IndexError"
            /\ UNCHANGED <<maze, distance, shortest_path_from>>
       ELSE /\ pc' = "built"
            /\ raised' = None
            /\ maze' = BuildMaze(grid)
            /\ distance' = FreshDistance(BuildMaze(grid))
            /\ shortest_path_from' = FreshPredecessor(BuildMaze(grid))
    /\ UNCHANGED <<grid, calls, limit>>

(* available_from(start), for any vertex of the maze.                       *)
AvailableFrom ==
    /\ pc = "built"
    /\ calls < limit
    /\ calls' = calls + 1
    /\ \E start \in vertices(maze) :
          LET run == AvailRun(maze, start, distance)
          IN  /\ op' = "available_from"
              /\ args' = <<start>>
              /\ ret' = run.available
              /\ distance' = run.dist
    /\ raised' = None
    /\ locals' = << >>
    /\ UNCHANGED <<grid, pc, maze, shortest_path_from, limit>>

(* bfs(source, dest), for any two vertices of the maze.                     *)
Bfs ==
    /\ pc = "built"
    /\ calls < limit
    /\ calls' = calls + 1
    /\ \E source \in vertices(maze), dest \in vertices(maze) :
          LET run == BfsRun(maze, source, dest, distance, shortest_path_from)
          IN  /\ op' = "bfs"
              /\ args' = <<source, dest>>
              /\ ret' = BfsPath(run.pred, dest)
              /\ distance' = run.dist
              /\ shortest_path_from' = run.pred
    /\ raised' = None
    /\ locals' = << >>
    /\ UNCHANGED <<grid, pc, maze, limit>>

AllInf == ResetDistance(maze, distance)

(* paths_to_exit([self.maze[1][1]]), the call solve makes.                  *)
PathsToExit ==
    /\ pc = "built"
    /\ calls < limit
    /\ calls' = calls + 1
    /\ op' = "paths_to_exit"
    /\ args' = << >>
    /\ locals' = << >>
    /\ IF StartRaises(maze, Width(grid), Height(grid))
       THEN /\ raised' = "IndexError"
            /\ ret' = None
            /\ UNCHANGED distance
       ELSE IF maze[StartCell] = NoCell
       THEN /\ raised' = "AttributeError"
            /\ ret' = None
            /\ distance' = AllInf
       ELSE \E ord \in Orders(maze, StartCell) :
            /\ raised' = None
            /\ ret' = paths_to_exit(maze, <<StartCell>>, 0, ord)
            /\ distance' = AvailRun(maze, LastSearched(maze, <<StartCell>>, 0, ord), distance).dist
    /\ UNCHANGED <<grid, pc, maze, shortest_path_from, limit>>

(* The routes paths_to_exit([start]) returns, as a set.                     *)
Routes(m) ==
    IF m[StartCell] = NoCell THEN {}
    ELSE Range(paths_to_exit(m, <<StartCell>>, 0, BaseOrder(m)))

(* calculate_plan_path(plan), for any route the enumerator returns.         *)
CalculatePlanPath ==
    /\ pc = "built"
    /\ calls < limit
    /\ calls' = calls + 1
    /\ ~StartRaises(maze, Width(grid), Height(grid))
    /\ \E plan \in Routes(maze) :
          LET run == BfsRun(maze, plan[Len(plan) - 1], plan[Len(plan)],
                            distance, shortest_path_from)
          IN  /\ op' = "calculate_plan_path"
              /\ args' = <<plan>>
              /\ IF PlanRaises(maze, plan)
                 THEN raised' = "IndexError" /\ ret' = None
                 ELSE raised' = None /\ ret' = calculate_plan_path(maze, plan)
              /\ distance' = run.dist
              /\ shortest_path_from' = run.pred
    /\ locals' = << >>
    /\ UNCHANGED <<grid, pc, maze, limit>>

(* solve()                                                                  *)
Solve ==
    /\ pc = "built"
    /\ calls < limit
    /\ calls' = calls + 1
    /\ op' = "solve"
    /\ args' = << >>
    /\ IF StartRaises(maze, Width(grid), Height(grid))
       THEN /\ raised' = "IndexError"
            /\ ret' = None
            /\ locals' = << >>
            /\ UNCHANGED <<distance, shortest_path_from>>
       ELSE IF maze[StartCell] = NoCell
       THEN /\ raised' = "AttributeError"
            /\ ret' = None
            /\ locals' = << >>
            /\ distance' = AllInf
            /\ UNCHANGED shortest_path_from
       ELSE \E ord \in Orders(maze, StartCell) :
            LET out == solve(maze, Width(grid), Height(grid), ord)
                last == out.plans[Len(out.plans)]
                run == BfsRun(maze, last[Len(last) - 1], last[Len(last)],
                             distance, shortest_path_from)
            IN  /\ raised' = out.raised
                /\ locals' = [the_path |-> out.the_path]
                /\ IF out.raised = None
                   THEN /\ ret' = out.ans
                        /\ distance' = run.dist
                        /\ shortest_path_from' = run.pred
                   ELSE /\ ret' = None
                        /\ distance' =
                              AvailRun(maze, LastSearched(maze, <<StartCell>>, 0, ord), distance).dist
                        /\ UNCHANGED shortest_path_from
    /\ UNCHANGED <<grid, pc, maze, limit>>

Next ==
    \/ Construct
    \/ AvailableFrom
    \/ Bfs
    \/ PathsToExit
    \/ CalculatePlanPath
    \/ Solve

Spec == Init /\ [][Next]_vars

(* Several calls in a row on one maze: the per-vertex fields a search finds *)
(* are the ones the calls before it left.                                   *)
InitCalls ==
    /\ grid \in CallGrids
    /\ pc = "new"
    /\ maze = << >>
    /\ distance = << >>
    /\ shortest_path_from = << >>
    /\ op = "none"
    /\ args = << >>
    /\ ret = None
    /\ raised = None
    /\ locals = << >>
    /\ calls = 0
    /\ limit = MaxCalls

SpecCalls == InitCalls /\ [][Next]_vars

----------------------------------------------------------------------------
(* paths_to_exit([self.maze[1][1]]) step by step.  locals.stack holds one   *)
(* frame per call of paths_to_exit that has not returned, the outermost     *)
(* first: its arguments path and keys, the candidates nodes it iterates     *)
(* over, the index i of the candidate the loop is at, and its list routes.  *)
(* locals.ord is the iteration order of sets in this run.                   *)

(* The search available_from(v) of every vertex v.  A search begins by       *)
(* resetting every distance, so what it returns and the distances it leaves *)
(* depend on the maze and on v alone; the run below looks them up here.     *)
Searches(m) == [v \in vertices(m) |-> AvailRun(m, v, FreshDistance(m))]

Frame(path, keys, ord, searches) ==
    [path |-> path, keys |-> keys,
     nodes |-> Candidates(searches[path[Len(path)]].available, path, ord),
     i |-> 1, routes |-> << >>]

Stack == locals.stack
Depth == Len(Stack)
Top == Stack[Depth]
InLoop == pc = "paths_to_exit" /\ Top.i <= Len(Top.nodes)
Node == Top.nodes[Top.i]

(* The outermost call: routes = [], available_from(path[-1]), the set        *)
(* difference.                                                              *)
Enter ==
    /\ pc = "built"
    /\ calls < limit
    /\ ~StartRaises(maze, Width(grid), Height(grid))
    /\ maze[StartCell] # NoCell
    /\ calls' = calls + 1
    /\ pc' = "paths_to_exit"
    /\ op' = "paths_to_exit"
    /\ args' = << >>
    /\ ret' = None
    /\ raised' = None
    /\ \E ord \in Orders(maze, StartCell) :
          locals' = [ord |-> ord, searches |-> Searches(maze),
                     stack |-> <<Frame(<<StartCell>>, 0, ord, Searches(maze))>>]
    /\ distance' = AvailRun(maze, StartCell, distance).dist
    /\ UNCHANGED <<grid, maze, shortest_path_from, limit>>

(* "if new_keys < 0: continue"                                              *)
Skip ==
    /\ InLoop
    /\ NewKeys(maze, Top.keys, Node) < 0
    /\ locals' = [locals EXCEPT !.stack[Depth].i = @ + 1]
    /\ UNCHANGED <<grid, pc, maze, distance, shortest_path_from, op, args, ret,
                   raised, calls, limit>>

(* "routes.append(new_path)" for an Exit.                                   *)
Record ==
    /\ InLoop
    /\ NewKeys(maze, Top.keys, Node) >= 0
    /\ maze[Node].type = Exit
    /\ locals' = [locals EXCEPT !.stack[Depth].routes = Append(@, Append(Top.path, Node)),
                                !.stack[Depth].i = @ + 1]
    /\ UNCHANGED <<grid, pc, maze, distance, shortest_path_from, op, args, ret,
                   raised, calls, limit>>

(* "self.paths_to_exit(new_path, new_keys)": the call, up to its loop.      *)
Recurse ==
    /\ InLoop
    /\ NewKeys(maze, Top.keys, Node) >= 0
    /\ maze[Node].type # Exit
    /\ locals' = [locals EXCEPT !.stack =
                      Append(@, Frame(Append(Top.path, Node),
                                      NewKeys(maze, Top.keys, Node), locals.ord,
                                      locals.searches))]
    /\ distance' = locals.searches[Node].dist
    /\ UNCHANGED <<grid, pc, maze, shortest_path_from, op, args, ret, raised,
                   calls, limit>>

(* "return routes": to the caller, which extends its routes and goes on to  *)
(* its next candidate, or out of the outermost call.                        *)
Return ==
    /\ pc = "paths_to_exit"
    /\ Top.i > Len(Top.nodes)
    /\ IF Depth = 1
       THEN /\ pc' = "built"
            /\ ret' = Top.routes
            /\ locals' = << >>
       ELSE /\ locals' = [locals EXCEPT !.stack =
                             [SubSeq(@, 1, Depth - 1) EXCEPT
                                 ![Depth - 1].routes = @ \o Top.routes,
                                 ![Depth - 1].i = @ + 1]]
            /\ UNCHANGED <<pc, ret>>
    /\ UNCHANGED <<grid, maze, distance, shortest_path_from, op, args, raised,
                   calls, limit>>

NextRec ==
    \/ Construct
    \/ Enter
    \/ Skip
    \/ Record
    \/ Recurse
    \/ Return

(* A call that has started runs on: the interpreter executes its next       *)
(* statement.                                                               *)
Running == Skip \/ Record \/ Recurse \/ Return

SpecRec == Init /\ [][NextRec]_vars /\ WF_vars(Running)

----------------------------------------------------------------------------
(* Reference notions the properties are stated with.                        *)

TagAt(g, p) == g[p[2] + 1][p[1] + 1]

UnitSteps == {<<0, 1>>, <<0, -1>>, <<1, 0>>, <<-1, 0>>}

Adjacent(p, q) == VecSub(q, p) \in UnitSteps

(* v is a neighbour of u in the built graph.                                *)
Edge(m, u, v) == v \in Range(m[u].neighbours)

(* Vertices reachable from root along edges when only root and non-Door     *)
(* vertices are left again.                                                 *)
RECURSIVE Closure(_, _, _)
Closure(m, root, R) ==
    LET next == R \cup {v \in vertices(m) :
                    \E u \in R : (u = root \/ m[u].type # Door) /\ Edge(m, u, v)}
    IN  IF next = R THEN R ELSE Closure(m, root, next)

(* Least number of edges of a path from the frontier to dest that enters no *)
(* Door other than dest; Unreachable when there is none.                    *)
Unreachable == << >>

RECURSIVE DistTo(_, _, _, _, _)
DistTo(m, dest, seen, frontier, k) ==
    IF dest \in frontier THEN <<k>>
    ELSE IF frontier = {} THEN Unreachable
    ELSE LET nxt == {v \in vertices(m) \ seen :
                        /\ m[v].type # Door \/ v = dest
                        /\ \E u \in frontier : Edge(m, u, v)}
         IN  DistTo(m, dest, seen \cup nxt, nxt, k + 1)

----------------------------------------------------------------------------
(* C9: graph construction skips a neighbour probe that falls outside the    *)
(* grid: it raises no error, and the neighbours of every vertex are exactly *)
(* the non-wall cells one unit step away inside the grid, each listed once. *)
C9_ProbesOutsideSkipped ==
    op = "init" =>
        /\ raised = None
        /\ \A p \in VertexPositions(grid) :
              /\ Range(maze[p].neighbours) = {q \in VertexPositions(grid) : Adjacent(p, q)}
              /\ Len(maze[p].neighbours) = Cardinality(Range(maze[p].neighbours))

(* C3: when the enumerator returns no route, solve ends with a "no          *)
(* solution" outcome and not with the error of a minimum over nothing.      *)
C3_NoSolutionReported ==
    (/\ op = "solve"
     /\ ~StartRaises(maze, Width(grid), Height(grid))
     /\ maze[StartCell] # NoCell
     /\ Routes(maze) = {})
    => raised = None

(* C5: available_from(root) is exactly the set of Key, Door and Exit        *)
(* vertices other than root that a path from root reaches without passing  *)
(* through a Door other than root.                                          *)
C5_AvailableExact ==
    op = "available_from" =>
        ret = {v \in Closure(maze, args[1], {args[1]}) \ {args[1]} :
                  maze[v].type \in {Key, Door, Exit}}

(* A Door root with a non-empty result and a checkpoint kept out of it by   *)
(* the Doors around the root.                                               *)
C5_Witness ==
    /\ op = "available_from"
    /\ maze[args[1]].type = Door
    /\ \E v \in ret : maze[v].type = Door
    /\ \E v \in checkpoints(maze) : v # args[1] /\ v \notin ret

(* C10: for dest # source reachable without entering a Door other than      *)
(* dest, bfs returns a path from source to dest along edges with no Door    *)
(* strictly inside it and with the least possible number of vertices.       *)
C10_BfsShortest ==
    (/\ op = "bfs"
     /\ args[1] # args[2]
     /\ DistTo(maze, args[2], {args[1]}, {args[1]}, 0) # Unreachable)
    => /\ Len(ret) = DistTo(maze, args[2], {args[1]}, {args[1]}, 0)[1] + 1
       /\ ret[1] = args[1]
       /\ ret[Len(ret)] = args[2]
       /\ \A i \in 1..(Len(ret) - 1) : Edge(maze, ret[i], ret[i + 1])
       /\ \A i \in 2..(Len(ret) - 1) : maze[ret[i]].type # Door

(* A leg that goes round a Door: longer than the straight way.              *)
C10_Witness ==
    /\ op = "bfs"
    /\ Len(ret) > 2
    /\ \E v \in vertices(maze) :
          /\ maze[v].type = Door
          /\ Adjacent(args[1], v)
          /\ Adjacent(v, args[2])
          /\ v \notin Range(ret)
----------------------------------------------------------------------------
(* Replaying a move string on the grid.                                     *)

DeltaOf(c) ==
    IF c = "d" THEN <<0, 1>>
    ELSE IF c = "u" THEN <<0, -1>>
    ELSE IF c = "r" THEN <<1, 0>>
    ELSE <<-1, 0>>

(* The positions visited from p by the moves, p included.                   *)
RECURSIVE Replay(_, _)
Replay(p, moves) ==
    IF moves = << >> THEN <<p>>
    ELSE <<p>> \o Replay(VecAdd(p, DeltaOf(Head(moves))), Tail(moves))

InGrid(g, p) == p[1] \in 0..(Width(g) - 1) /\ p[2] \in 0..(Height(g) - 1)

IsCell(g, p) == InGrid(g, p) /\ TagAt(g, p) # Wall

(* Cells entered by the walk w before its i-th position (the start cell,    *)
(* w[1], is where the walk begins and is not entered by it).                *)
KeysEnteredBefore(g, w, i) == {w[j] : j \in {k \in 2..(i - 1) : TagAt(g, w[k]) = Key}}
DoorEntriesBefore(g, w, i) == {k \in 2..(i - 1) : TagAt(g, w[k]) = Door}

(* C1: the move string solve returns, replayed from the start cell, steps   *)
(* only onto non-wall cells, ends on an Exit, and enters a Door only when   *)
(* the distinct Keys entered before outnumber the Doors entered before.     *)
C1_ReplayOpensDoors ==
    (op = "solve" /\ raised = None) =>
        LET w == Replay(StartCell, ret)
        IN  /\ \A i \in 2..Len(w) : IsCell(grid, w[i])
            /\ TagAt(grid, w[Len(w)]) = Exit
            /\ \A i \in 2..Len(w) :
                  TagAt(grid, w[i]) = Door =>
                      Cardinality(KeysEnteredBefore(grid, w, i))
                          > Cardinality(DoorEntriesBefore(grid, w, i))

(* A returned walk that enters two Doors.                                   *)
C1_Witness ==
    /\ op = "solve"
    /\ raised = None
    /\ LET w == Replay(StartCell, ret)
       IN  Cardinality(DoorEntriesBefore(grid, w, Len(w))) >= 2

(* C8: the move string has one character of u, d, l, r per step of the      *)
(* selected path, and replaying it from the start position gives back the   *)
(* positions of the selected path.                                          *)
C8_EncodeRoundTrip ==
    (op = "solve" /\ raised = None) =>
        /\ Len(ret) = Len(locals.the_path) - 1
        /\ Range(ret) \subseteq {"u", "d", "l", "r"}
        /\ Replay(StartCell, ret) = locals.the_path

(* A returned string with moves in all four directions.                     *)
C8_Witness ==
    /\ op = "solve"
    /\ raised = None
    /\ Range(ret) = {"u", "d", "l", "r"}

(* C7: the stitched path of a route starts at the route's first vertex,     *)
(* ends at its last, and every two consecutive vertices are one unit step   *)
(* apart (so the vertex two legs share is not repeated).                    *)
C7_StitchedPathWalkable ==
    (op = "calculate_plan_path" /\ raised = None) =>
        LET plan == args[1]
        IN  /\ ret[1] = plan[1]
            /\ ret[Len(ret)] = plan[Len(plan)]
            /\ \A i \in 1..(Len(ret) - 1) : Adjacent(ret[i], ret[i + 1])

(* A route of three legs stitched.                                          *)
C7_Witness ==
    /\ op = "calculate_plan_path"
    /\ raised = None
    /\ Len(args[1]) >= 4
    /\ Len(ret) > Len(args[1])

----------------------------------------------------------------------------
(* Routes as the enumerator's contract describes them.                      *)

(* Key balance of route r after its i-th vertex, the start r[1] not         *)
(* counted.                                                                 *)
Balance(g, r, i) ==
    Cardinality({k \in 2..i : TagAt(g, r[k]) = Key})
        - Cardinality({k \in 2..i : TagAt(g, r[k]) = Door})

(* Sequences of n distinct vertices of C.                                   *)
RECURSIVE DistinctSeqs(_, _)
DistinctSeqs(C, n) ==
    IF n = 0 THEN {<< >>}
    ELSE {Append(q, c) : <<q, c>> \in
             {x \in DistinctSeqs(C, n - 1) \X C : x[2] \notin Range(x[1])}}

ClaimedRoutes(m, g, start) ==
    LET inner == {c \in checkpoints(m) : c # start /\ m[c].type # Exit}
        exits == {c \in checkpoints(m) : c # start /\ m[c].type = Exit}
        cand == UNION { { <<start>> \o q \o <<e>> : q \in DistinctSeqs(inner, n), e \in exits }
                        : n \in 0..Cardinality(inner) }
    IN  {r \in cand :
            /\ \A i \in 2..Len(r) : Balance(g, r, i) >= 0
            /\ \A i \in 2..Len(r) : r[i] \in available_from(m, r[i - 1])}

(* C4: paths_to_exit([start]) returns, each once, exactly the sequences     *)
(* [start, c1, ..., cn] of distinct vertices with every c_i available from  *)
(* its predecessor, c_n the only Exit, and the balance never negative.      *)
C4_RoutesExact ==
    (op = "paths_to_exit" /\ raised = None) =>
        /\ Range(ret) = ClaimedRoutes(maze, grid, StartCell)
        /\ Len(ret) = Cardinality(Range(ret))

(* Several routes returned, one of them through two Doors.                  *)
C4_Witness ==
    /\ op = "paths_to_exit"
    /\ raised = None
    /\ Len(ret) >= 3
    /\ \E r \in Range(ret) : Cardinality({k \in 2..Len(r) : TagAt(grid, r[k]) = Door}) >= 2

(* C6: the key balance of every returned route is non-negative after each  *)
(* of its checkpoints.                                                      *)
C6_BalanceNonNegative ==
    (op = "paths_to_exit" /\ raised = None) =>
        \A r \in Range(ret) : \A i \in 2..Len(r) : Balance(grid, r, i) >= 0

(* A Door is a candidate at the start, where the balance is 0, and a        *)
(* returned route goes through that Door later.                             *)
C6_Witness ==
    /\ op = "paths_to_exit"
    /\ raised = None
    /\ \E d \in available_from(maze, StartCell) :
          /\ maze[d].type = Door
          /\ \E r \in Range(ret) : d \in Range(r)

----------------------------------------------------------------------------
(* Walks on the grid with keys and doors.                                   *)

GridNeighbours(g, p) == {q \in VertexPositions(g) : Adjacent(p, q)}

NoWalk == << >>

(* The walk of the claim: a state is <<cell, Key cells entered, keys held>>. *)
(* Entering a Key cell for the first time adds a key; every entry into a    *)
(* Door needs a key and uses it up.                                         *)
WalkSteps(g, s) ==
    { IF TagAt(g, q) = Key /\ q \notin s[2] THEN <<q, s[2] \cup {q}, s[3] + 1>>
      ELSE IF TagAt(g, q) = Door THEN <<q, s[2], s[3] - 1>>
      ELSE <<q, s[2], s[3]>>
      : q \in {n \in GridNeighbours(g, s[1]) : TagAt(g, n) = Door => s[3] > 0} }

RECURSIVE WalkSearch(_, _, _, _)
WalkSearch(g, seen, frontier, k) ==
    IF \E s \in frontier : TagAt(g, s[1]) = Exit THEN <<k>>
    ELSE IF frontier = {} THEN NoWalk
    ELSE LET nxt == (UNION {WalkSteps(g, s) : s \in frontier}) \ seen
         IN  WalkSearch(g, seen \cup nxt, nxt, k + 1)

(* Least number of moves of a valid walk from the start cell to an Exit.    *)
MinWalk(g) == WalkSearch(g, {<<StartCell, {}, 0>>}, {<<StartCell, {}, 0>>}, 0)

(* The same walk when no Door is entered twice: a state is                  *)
(* <<cell, Key cells entered, Door cells entered>>.                         *)
OnceSteps(g, s) ==
    { IF TagAt(g, q) = Key THEN <<q, s[2] \cup {q}, s[3]>>
      ELSE IF TagAt(g, q) = Door THEN <<q, s[2], s[3] \cup {q}>>
      ELSE <<q, s[2], s[3]>>
      : q \in {n \in GridNeighbours(g, s[1]) :
                  TagAt(g, n) = Door =>
                      n \notin s[3] /\ Cardinality(s[2]) > Cardinality(s[3])} }

RECURSIVE OnceSearch(_, _, _, _)
OnceSearch(g, seen, frontier, k) ==
    IF \E s \in frontier : TagAt(g, s[1]) = Exit THEN <<k>>
    ELSE IF frontier = {} THEN NoWalk
    ELSE LET nxt == (UNION {OnceSteps(g, s) : s \in frontier}) \ seen
         IN  OnceSearch(g, seen \cup nxt, nxt, k + 1)

MinWalkOnce(g) == OnceSearch(g, {<<StartCell, {}, {}>>}, {<<StartCell, {}, {}>>}, 0)

(* C2, every valid walk: whenever a valid walk from the start cell to an    *)
(* Exit exists, solve returns a move string of the least number of moves   *)
(* of such a walk.  The start cell is plain floor, as the start cell of    *)
(* the specification's mazes is.                                           *)
C2_ShortestValidWalk ==
    (/\ op = "solve"
     /\ IsCell(grid, StartCell)
     /\ TagAt(grid, StartCell) = Floor
     /\ MinWalk(grid) # NoWalk)
    => /\ raised = None
       /\ Len(ret) = MinWalk(grid)[1]

(* C2, Doors entered once: whenever a valid walk from the start cell to an *)
(* Exit that enters no Door twice exists, solve returns a move string of   *)
(* the least number of moves of such a walk (start cell plain floor).      *)
C2_ShortestWalkDoorsOnce ==
    (/\ op = "solve"
     /\ IsCell(grid, StartCell)
     /\ TagAt(grid, StartCell) = Floor
     /\ MinWalkOnce(grid) # NoWalk)
    => /\ raised = None
       /\ Len(ret) = MinWalkOnce(grid)[1]

(* solve chose between routes of different stitched lengths, and the walk   *)
(* it returned goes through a Door.                                         *)
C2_Witness ==
    /\ op = "solve"
    /\ raised = None
    /\ TagAt(grid, StartCell) = Floor
    /\ Len(ret) = MinWalkOnce(grid)[1]
    /\ \E z \in 2..Len(locals.the_path) : TagAt(grid, locals.the_path[z]) = Door
    /\ \E r \in Routes(maze) : Len(calculate_plan_path(maze, r)) > Len(locals.the_path)
----------------------------------------------------------------------------
(* C11: whatever calls ran on the maze before, available_from(root) returns *)
(* the set, and bfs(source, dest) the path, that the same call returns on a *)
(* maze no search has run on.                                               *)
C11_SearchesIndependent ==
    /\ op = "available_from" => ret = available_from(maze, args[1])
    /\ op = "bfs" => ret = bfs(maze, args[1], args[2])

(* A search that found something, run after a bfs whose back-pointers are   *)
(* still in the vertices.                                                   *)
C11_Witness ==
    /\ calls >= 2
    /\ op = "available_from"
    /\ ret # {}
    /\ shortest_path_from # FreshPredecessor(maze)
    /\ \E v \in vertices(maze) : distance[v] = inf
----------------------------------------------------------------------------
(* The calls of paths_to_exit in progress: every call made by another has   *)
(* its caller's path with one vertex added, and no path has a vertex twice. *)
PathsGrow ==
    \A k \in 1..Depth :
        /\ Cardinality(Range(Stack[k].path)) = Len(Stack[k].path)
        /\ k > 1 => /\ Len(Stack[k].path) > Len(Stack[k - 1].path)
                    /\ SubSeq(Stack[k].path, 1, Len(Stack[k - 1].path)) = Stack[k - 1].path

(* The number of calls of paths_to_exit made by paths_to_exit that are in   *)
(* progress.                                                                *)
RecursionDepth == Depth - 1

(* C12: paths_to_exit([start]) terminates: every recursive call gets a path *)
(* strictly longer than its caller's, no path has a vertex twice, the       *)
(* recursion is never deeper than the number of Key, Door and Exit          *)
(* vertices, and a call that has started returns.                           *)
C12_PathsToExitTerminates ==
    /\ [](pc = "paths_to_exit" =>
            /\ PathsGrow
            /\ RecursionDepth <= Cardinality(checkpoints(maze)))
    /\ (pc = "paths_to_exit") ~> (pc = "built" /\ op = "paths_to_exit")

(* The recursion as deep as the maze has checkpoints, two at least.         *)
C12_Witness ==
    /\ pc = "paths_to_exit"
    /\ RecursionDepth = Cardinality(checkpoints(maze))
    /\ RecursionDepth >= 2
====
